---- MODULE Spec2Model ----
(***************************************************************************)
(* ApiResolver (packages/backend-common/src/context/ApiResolver.ts): a     *)
(* registry of instantiated APIs that grows through with(factories).      *)
(* A with call is modelled statement by statement: the copy of the         *)
(* registry, the loop over the batch with its duplicate check, the         *)
(* depth-first traversal enqueueDepthFirst with its explicit call stack,   *)
(* the instantiation loop over the queue and the construction of the new   *)
(* resolver.                                                               *)
(* RootContext (RootContext.ts) derives contexts over abort signals,       *)
(* timers and resolvers; a withApi call runs with to its end in one step.  *)
(* IdentityAwareFetchMiddleware (core-app-api, FetchApi) is modelled with  *)
(* its two fields and the fetch calls in flight, split at their await.     *)
(* Spec and FairSpec are the behaviours of the resolver, CtxSpec those of  *)
(* the contexts, FetchSpec those of the middleware.                        *)
(***************************************************************************)
EXTENDS Integers, Sequences, FiniteSets, TLC

(* ---------------------------------------------------------------------- *)
(* Bounds                                                                  *)
(* ---------------------------------------------------------------------- *)

\* Largest number of factory occurrences handed to with calls that returned,
\* over all resolvers built so far, plus the batch of the call in progress.
MaxFactories == 4

\* Largest number of resolver objects alive at once (the empty one included).
MaxResolvers == 3

\* Largest number of context objects (the first root included).
MaxContexts == 3

\* Largest number of promises handed out by abortPromise.
MaxPromises == 1

\* Largest number of factory occurrences over the withApi calls of a run.
MaxApiFactories == 2

\* Largest number of fetch calls of a run.
MaxFetches == 2

(* ---------------------------------------------------------------------- *)
(* Values, identifiers and factories                                       *)
(* ---------------------------------------------------------------------- *)

\* A JavaScript value held in the registry: numbers, undefined and NaN.
Num(n) == [t |-> "num", n |-> n]
Undefined == [t |-> "undefined", n |-> 0]
NaN == [t |-> "NaN", n |-> 0]

\* The + of JavaScript on the values above.
Plus(x, y) == IF x.t = "num" /\ y.t = "num" THEN Num(x.n + y.n) ELSE NaN

\* The factory objects that batches are drawn from. A factory object is
\* named by its position in this table (object identity); api is the
\* identifier it produces, deps the identifiers of its dependencies in
\* property order, and its construction function returns k plus the sum of
\* the dependency values, or returns undefined (void), or throws.
Pool ==
  << [api |-> "a", deps |-> <<>>,         k |-> 1, throws |-> FALSE, void |-> FALSE],
     [api |-> "b", deps |-> <<"a">>,      k |-> 1, throws |-> FALSE, void |-> FALSE],
     [api |-> "c", deps |-> <<"a", "b">>, k |-> 0, throws |-> FALSE, void |-> FALSE],
     [api |-> "a", deps |-> <<"b">>,      k |-> 5, throws |-> FALSE, void |-> FALSE],
     [api |-> "c", deps |-> <<"missing">>, k |-> 0, throws |-> FALSE, void |-> FALSE],
     [api |-> "b", deps |-> <<>>,         k |-> 7, throws |-> FALSE, void |-> FALSE],
     [api |-> "d", deps |-> <<>>,         k |-> 0, throws |-> TRUE, void |-> FALSE],
     [api |-> "e", deps |-> <<"c">>,      k |-> 1, throws |-> FALSE, void |-> TRUE],
     [api |-> "d", deps |-> <<"d">>,      k |-> 1, throws |-> FALSE, void |-> FALSE] >>

Factory == 1 .. Len(Pool)

Ids == {Pool[f].api : f \in Factory} \cup {"missing"}

\* All sequences over S of length at most n.
RECURSIVE SeqsUpTo(_, _)
SeqsUpTo(S, n) ==
  IF n = 0 THEN {<<>>}
  ELSE LET shorter == SeqsUpTo(S, n - 1)
       IN  shorter \cup {Append(s, x) : s \in {t \in shorter : Len(t) = n - 1}, x \in S}

\* The elements of a sequence.
Range(s) == {s[j] : j \in 1 .. Len(s)}

\* Array.prototype.includes
Includes(s, x) == \E j \in 1 .. Len(s) : s[j] = x

\* Map.prototype.has, Map.prototype.get and Map.prototype.set on a registry,
\* a function from the identifiers present to their values.
Has(apis, id) == id \in DOMAIN apis
Get(apis, id) == IF id \in DOMAIN apis THEN apis[id] ELSE Undefined
Set(apis, id, v) == [x \in DOMAIN apis \cup {id} |-> IF x = id THEN v ELSE apis[x]]

EmptyApis == [x \in {} |-> Undefined]

\* factories.find(f => f.api.id === id): the first factory of the batch that
\* produces id, 0 when there is none.
Find(factories, id) ==
  IF \E j \in 1 .. Len(factories) : Pool[factories[j]].api = id
  THEN factories[CHOOSE j \in 1 .. Len(factories) :
                   /\ Pool[factories[j]].api = id
                   /\ \A h \in 1 .. j - 1 : Pool[factories[h]].api # id]
  ELSE 0

\* mapValues(factory.deps, ref => apis.get(ref.id))
Dependencies(f, apis) == [j \in 1 .. Len(Pool[f].deps) |-> Get(apis, Pool[f].deps[j])]

\* factory.factory(dependencies) of a factory that does not throw.
RECURSIVE SumFrom(_, _)
SumFrom(vals, j) == IF j > Len(vals) THEN Num(0) ELSE Plus(vals[j], SumFrom(vals, j + 1))
Construct(f, dependencies) ==
  IF Pool[f].void THEN Undefined ELSE Plus(Num(Pool[f].k), SumFrom(dependencies, 1))

(* ---------------------------------------------------------------------- *)
(* State                                                                   *)
(* ---------------------------------------------------------------------- *)

VARIABLES
  maps,       \* the Map objects allocated so far, by reference: maps[m] is
              \* the content of Map m (identifier -> value)
  resolvers,  \* the ApiResolver objects built so far: apis is the reference
              \* of the private Map; prov (the factory objects registered
              \* along the derivation chain), calls (the length of that
              \* chain) and cost (the length of the batch that built it) are
              \* history
  call,       \* the activation of with in progress or just ended: its local
              \* variables, and invoked, the factories whose construction
              \* function it has called so far
  resolved,   \* the call of resolve the caller has just made, if any, and
              \* what it returned
  contexts,   \* the RootContext objects built so far: abortSignal and
              \* apiResolver are references; parent, how (the context it was
              \* derived from and the method that derived it) and reg (the
              \* factories registered along its derivation) are history
  signals,    \* the AbortSignal objects, by reference: the aborted flag and
              \* the listeners of the abort event, in the order added
  timers,     \* the timers set by withTimeout: the signal they abort and
              \* whether they are armed, fired or cleared
  promises,   \* the promises handed out by abortPromise: whether resolved;
              \* ctx (the context asked) and late (the signal was already
              \* aborted when the promise was made) are history
  tokenFunction,  \* the field of the middleware: a token function, or 0 for
                  \* undefined
  headerName,     \* the field of the middleware
  fetchFn,    \* the fetch function that apply returned last; atApply (the
              \* value of tokenFunction when apply was called) is history
  fetches     \* the calls of the fetch function: where each stands, its
              \* arguments and local constant, and the calls of next it has
              \* made; startedWith (the value of the field tokenFunction
              \* when the call started) and raced (the field held another
              \* value when the call went on after its await) are history

\* The variables of RootContext.
ctxVars == <<contexts, signals, timers, promises>>

\* The variables of IdentityAwareFetchMiddleware.
fetchVars == <<tokenFunction, headerName, fetchFn, fetches>>

\* The variables of the other components.
elsewhere == <<ctxVars, fetchVars>>

vars == <<maps, resolvers, call, resolved, elsewhere>>

\* No call of resolve has returned to a caller that still holds the result.
NoResolve == [this |-> 0, id |-> "", value |-> Undefined]

NoError == [kind |-> "none", chain |-> <<>>]

\* const DEFAULT_HEADER_NAME = 'backstage-token'
DEFAULT_HEADER_NAME == "backstage-token"

\* No call of apply has been made yet.
NoFetchFn == [made |-> FALSE, atApply |-> 0]

Idle ==
  [pc |-> "idle", this |-> 0, factories |-> <<>>, apis |-> 0,
   queue |-> <<>>, i |-> 0, stack |-> <<>>, qi |-> 0, invoked |-> <<>>,
   error |-> NoError, result |-> 0]

\* ApiResolver.empty(): one resolver over an empty Map;
\* RootContext.create(): one root context over it, whose signal belongs to
\* a controller that nobody holds; and new IdentityAwareFetchMiddleware():
\* signed out, with the default header name.
Init ==
  /\ maps = << EmptyApis >>
  /\ resolvers = << [apis |-> 1, prov |-> {}, calls |-> 0, cost |-> 0] >>
  /\ call = Idle
  /\ resolved = NoResolve
  /\ contexts = << [abortSignal |-> 1, apiResolver |-> 1, parent |-> 0, how |-> "create", reg |-> {}] >>
  /\ signals = << [aborted |-> FALSE, listeners |-> <<>>] >>
  /\ timers = <<>>
  /\ promises = <<>>
  /\ tokenFunction = 0
  /\ headerName = DEFAULT_HEADER_NAME
  /\ fetchFn = NoFetchFn
  /\ fetches = <<>>

\* Factory occurrences already spent on the resolvers built so far.
RECURSIVE CostFrom(_, _)
CostFrom(rs, j) == IF j > Len(rs) THEN 0 ELSE rs[j].cost + CostFrom(rs, j + 1)

(* ---------------------------------------------------------------------- *)
(* The statements of with, as functions of s = [call, maps]: the           *)
(* activation and the heap of Map objects                                  *)
(* ---------------------------------------------------------------------- *)

\* The content of the Map that the local variable apis refers to.
Apis(s) == s.maps[s.call.apis]

\* throw new Error(...): the call ends, the stack unwinds.
Throw(s, kind, chain) ==
  [s EXCEPT !.call.pc = "thrown", !.call.stack = <<>>,
            !.call.error = [kind |-> kind, chain |-> chain]]

\* Head of "for (const factory of queue)": the next factory to instantiate,
\* or the return statement once the queue is exhausted.
NextInQueue(s) ==
  IF s.call.qi <= Len(s.call.queue)
  THEN [s EXCEPT !.call.pc = "instantiate"]
  ELSE [s EXCEPT !.call.pc = "return"]

\* Head of "for (const factory of factories)": the next factory to check, or
\* the instantiation loop once the batch is exhausted.
NextInBatch(s) ==
  IF s.call.i <= Len(s.call.factories) THEN [s EXCEPT !.call.pc = "check"] ELSE NextInQueue(s)

\* Start with "const apis = this.apis": the local variable refers to the Map
\* of the receiver itself.
StartAliased(this, thisApis, factories, heap) ==
  NextInBatch([call |-> [Idle EXCEPT !.this = this, !.factories = factories,
                                     !.apis = thisApis, !.i = 1, !.qi = 1],
               maps |-> heap])

\* Start with "const apis = new Map()": the content of the receiver is not
\* carried over.
StartFresh(this, thisApis, factories, heap) ==
  NextInBatch([call |-> [Idle EXCEPT !.this = this, !.factories = factories,
                                     !.apis = Len(heap) + 1, !.i = 1, !.qi = 1],
               maps |-> Append(heap, EmptyApis)])

\* const apis = new Map(this.apis); const queue = [];
\* this is the receiver and thisApis the reference of its Map; the new Map
\* is a new object holding a copy of the content.
Start(this, thisApis, factories, heap) ==
  NextInBatch([call |-> [Idle EXCEPT !.this = this, !.factories = factories,
                                     !.apis = Len(heap) + 1, !.i = 1, !.qi = 1],
               maps |-> Append(heap, heap[thisApis])])

\* CheckDuplicateStep without the apis.has check.
CheckDuplicateStepNoCheck(s) ==
  LET factory == s.call.factories[s.call.i]
      id == Pool[factory].api
  IN  [s EXCEPT !.call.pc = "visit",
                !.call.stack = << [factory |-> factory, seen |-> <<id>>, di |-> 1] >>]

\* if (apis.has(factory.api.id)) throw ...; enqueueDepthFirst(factory, [factory.api.id])
CheckDuplicateStep(s) ==
  LET factory == s.call.factories[s.call.i]
      id == Pool[factory].api
  IN  IF Has(Apis(s), id)
      THEN Throw(s, "duplicate", <<id>>)
      ELSE [s EXCEPT !.call.pc = "visit",
                     !.call.stack = << [factory |-> factory, seen |-> <<id>>, di |-> 1] >>]

\* VisitDepStep whose recursive call passes [depRef.id] in place of
\* [...seen, depRef.id]: the path restarts at every level.
VisitDepStepShortSeen(s) ==
  LET top == Len(s.call.stack)
      fr == s.call.stack[top]
      depId == Pool[fr.factory].deps[fr.di]
      depFactory == Find(s.call.factories, depId)
      advanced == [s.call.stack EXCEPT ![top].di = fr.di + 1]
  IN  IF Includes(fr.seen, depId)
      THEN Throw(s, "circular", Append(fr.seen, depId))
      ELSE IF ~Has(Apis(s), depId)
      THEN IF depFactory = 0
           THEN Throw(s, "missing", Append(fr.seen, depId))
           ELSE [s EXCEPT !.call.stack = Append(advanced,
                    [factory |-> depFactory, seen |-> <<depId>>, di |-> 1])]
      ELSE [s EXCEPT !.call.stack = advanced]

\* VisitDepStep whose circular-dependency message is built from seen alone,
\* without the repeated identifier.
VisitDepStepOpenChain(s) ==
  LET top == Len(s.call.stack)
      fr == s.call.stack[top]
      depId == Pool[fr.factory].deps[fr.di]
      depFactory == Find(s.call.factories, depId)
      advanced == [s.call.stack EXCEPT ![top].di = fr.di + 1]
  IN  IF Includes(fr.seen, depId)
      THEN Throw(s, "circular", fr.seen)
      ELSE IF ~Has(Apis(s), depId)
      THEN IF depFactory = 0
           THEN Throw(s, "missing", Append(fr.seen, depId))
           ELSE [s EXCEPT !.call.stack = Append(advanced,
                    [factory |-> depFactory, seen |-> Append(fr.seen, depId), di |-> 1])]
      ELSE [s EXCEPT !.call.stack = advanced]

\* VisitDepStep without the recursive call: a dependency produced by the batch
\* is accepted without placing its factory first.
VisitDepStepNoRecursion(s) ==
  LET top == Len(s.call.stack)
      fr == s.call.stack[top]
      depId == Pool[fr.factory].deps[fr.di]
      depFactory == Find(s.call.factories, depId)
      advanced == [s.call.stack EXCEPT ![top].di = fr.di + 1]
  IN  IF Includes(fr.seen, depId)
      THEN Throw(s, "circular", Append(fr.seen, depId))
      ELSE IF ~Has(Apis(s), depId) /\ depFactory = 0
      THEN Throw(s, "missing", Append(fr.seen, depId))
      ELSE [s EXCEPT !.call.stack = advanced]

\* One iteration of "for (const depRef of Object.values(factory.deps))" in the
\* innermost activation of enqueueDepthFirst; a recursive call pushes an
\* activation, the loop of the caller resuming at its next dependency.
VisitDepStep(s) ==
  LET top == Len(s.call.stack)
      fr == s.call.stack[top]
      depId == Pool[fr.factory].deps[fr.di]
      depFactory == Find(s.call.factories, depId)
      advanced == [s.call.stack EXCEPT ![top].di = fr.di + 1]
  IN  IF Includes(fr.seen, depId)
      THEN Throw(s, "circular", Append(fr.seen, depId))
      ELSE IF ~Has(Apis(s), depId)
      THEN IF depFactory = 0
           THEN Throw(s, "missing", Append(fr.seen, depId))
           ELSE [s EXCEPT !.call.stack = Append(advanced,
                    [factory |-> depFactory, seen |-> Append(fr.seen, depId), di |-> 1])]
      ELSE [s EXCEPT !.call.stack = advanced]

\* EnqueueStep with queue.unshift in place of queue.push: a factory is placed
\* before the dependencies that were placed for it.
EnqueueStepUnshift(s) ==
  LET top == Len(s.call.stack)
      factory == s.call.stack[top].factory
      queue == IF Includes(s.call.queue, factory) THEN s.call.queue
               ELSE <<factory>> \o s.call.queue
      popped == [s EXCEPT !.call.queue = queue,
                          !.call.stack = SubSeq(s.call.stack, 1, top - 1)]
  IN  IF top = 1 THEN NextInBatch([popped EXCEPT !.call.i = s.call.i + 1]) ELSE popped

\* EnqueueStep that calls the construction function as soon as it places
\* the factory, while the rest of the batch is still being validated.
EnqueueStepEager(s) ==
  LET top == Len(s.call.stack)
      factory == s.call.stack[top].factory
      placed == ~Includes(s.call.queue, factory)
      popped == [s EXCEPT !.call.queue = IF placed THEN Append(@, factory) ELSE @,
                          !.call.invoked = IF placed THEN Append(@, factory) ELSE @,
                          !.call.stack = SubSeq(s.call.stack, 1, top - 1)]
  IN  IF top = 1 THEN NextInBatch([popped EXCEPT !.call.i = s.call.i + 1]) ELSE popped

\* EnqueueStep without the queue.includes check.
EnqueueStepAlways(s) ==
  LET top == Len(s.call.stack)
      factory == s.call.stack[top].factory
      popped == [s EXCEPT !.call.queue = Append(s.call.queue, factory),
                          !.call.stack = SubSeq(s.call.stack, 1, top - 1)]
  IN  IF top = 1 THEN NextInBatch([popped EXCEPT !.call.i = s.call.i + 1]) ELSE popped

\* EnqueueStep whose outermost return leaves the loop over the batch on the
\* same factory.
EnqueueStepNoAdvance(s) ==
  LET top == Len(s.call.stack)
      factory == s.call.stack[top].factory
      queue == IF Includes(s.call.queue, factory) THEN s.call.queue
               ELSE Append(s.call.queue, factory)
      popped == [s EXCEPT !.call.queue = queue,
                          !.call.stack = SubSeq(s.call.stack, 1, top - 1)]
  IN  IF top = 1 THEN NextInBatch(popped) ELSE popped

\* if (!queue.includes(factory)) queue.push(factory); and the return of the
\* innermost activation of enqueueDepthFirst; the return of the outermost
\* one moves the loop over the batch to its next factory.
EnqueueStep(s) ==
  LET top == Len(s.call.stack)
      factory == s.call.stack[top].factory
      queue == IF Includes(s.call.queue, factory) THEN s.call.queue
               ELSE Append(s.call.queue, factory)
      popped == [s EXCEPT !.call.queue = queue,
                          !.call.stack = SubSeq(s.call.stack, 1, top - 1)]
  IN  IF top = 1 THEN NextInBatch([popped EXCEPT !.call.i = s.call.i + 1]) ELSE popped

\* InstantiateStep that calls the construction function and drops its result.
InstantiateStepNoSet(s) ==
  LET factory == s.call.queue[s.call.qi]
      called == [s EXCEPT !.call.invoked = Append(s.call.invoked, factory)]
  IN  IF Pool[factory].throws
      THEN Throw(called, "factory", <<Pool[factory].api>>)
      ELSE NextInQueue([called EXCEPT !.call.qi = s.call.qi + 1])

\* const dependencies = mapValues(...);
\* apis.set(factory.api.id, factory.factory(dependencies))
InstantiateStep(s) ==
  LET factory == s.call.queue[s.call.qi]
      dependencies == Dependencies(factory, Apis(s))
      called == [s EXCEPT !.call.invoked = Append(s.call.invoked, factory)]
  IN  IF Pool[factory].throws
      THEN Throw(called, "factory", <<Pool[factory].api>>)
      ELSE NextInQueue([called EXCEPT
             !.maps[s.call.apis] = Set(Apis(s), Pool[factory].api,
                                       Construct(factory, dependencies)),
             !.call.qi = s.call.qi + 1])

\* Whether the innermost activation of enqueueDepthFirst still has a
\* dependency to look at.
HasNextDep(c) == c.stack[Len(c.stack)].di <= Len(Pool[c.stack[Len(c.stack)].factory].deps)

\* The next statement of a call that has neither reached its return
\* statement nor thrown.
Step(s) ==
  CASE s.call.pc = "check" -> CheckDuplicateStep(s)
    [] s.call.pc = "visit" /\ HasNextDep(s.call) -> VisitDepStep(s)
    [] s.call.pc = "visit" /\ ~HasNextDep(s.call) -> EnqueueStep(s)
    [] s.call.pc = "instantiate" -> InstantiateStep(s)

\* A with call run up to its return statement or its throw.
RECURSIVE Run(_)
Run(s) == IF s.call.pc \in {"return", "thrown"} THEN s ELSE Run(Step(s))

(* ---------------------------------------------------------------------- *)
(* Actions                                                                 *)
(* ---------------------------------------------------------------------- *)

Here == [call |-> call, maps |-> maps]

Becomes(s) == call' = s.call /\ maps' = s.maps

\* A caller invokes this.with(factories) on one of the resolvers, with a
\* batch of factory objects in some order (an object may occur twice).
With ==
  /\ call.pc = "idle"
  /\ Len(resolvers) < MaxResolvers
  /\ \E this \in 1 .. Len(resolvers) :
       \E factories \in SeqsUpTo(Factory, MaxFactories - CostFrom(resolvers, 1)) :
          Becomes(Start(this, resolvers[this].apis, factories, maps))
  /\ resolved' = NoResolve
  /\ UNCHANGED <<resolvers, elsewhere>>

CheckDuplicate ==
  /\ call.pc = "check"
  /\ Becomes(CheckDuplicateStep(Here))
  /\ UNCHANGED <<resolvers, resolved, elsewhere>>

VisitDep ==
  /\ call.pc = "visit"
  /\ HasNextDep(call)
  /\ Becomes(VisitDepStep(Here))
  /\ UNCHANGED <<resolvers, resolved, elsewhere>>

Enqueue ==
  /\ call.pc = "visit"
  /\ ~HasNextDep(call)
  /\ Becomes(EnqueueStep(Here))
  /\ UNCHANGED <<resolvers, resolved, elsewhere>>

Instantiate ==
  /\ call.pc = "instantiate"
  /\ Becomes(InstantiateStep(Here))
  /\ UNCHANGED <<resolvers, resolved, elsewhere>>

\* return new ApiResolver(apis): the new resolver keeps the Map itself.
\* return new ApiResolver(apis): the resolver over the Map of the call.
ReturnResolver(rs, c) ==
  Append(rs,
       [apis |-> c.apis,
        prov |-> rs[c.this].prov \cup Range(c.factories),
        calls |-> rs[c.this].calls + 1,
        cost |-> Len(c.factories)])

Return ==
  /\ call.pc = "return"
  /\ resolvers' = ReturnResolver(resolvers, call)
  /\ call' = [call EXCEPT !.pc = "returned", !.result = Len(resolvers) + 1]
  /\ UNCHANGED <<maps, resolved, elsewhere>>

\* The caller has received the new resolver or the error; the activation of
\* with and its local variables are gone, and so is the Map it allocated
\* unless a resolver holds it.
Complete ==
  /\ call.pc \in {"returned", "thrown"}
  /\ call' = Idle
  /\ maps' = IF \E r \in 1 .. Len(resolvers) : resolvers[r].apis = Len(maps)
             THEN maps ELSE SubSeq(maps, 1, Len(maps) - 1)
  /\ UNCHANGED <<resolvers, resolved, elsewhere>>

\* Mutation of resolve: it looks into the Map of ApiResolver.empty().
ResolveInEmpty(heap, resolver, id) == Get(heap[1], id)

\* resolve(ref): return this.apis.get(ref.id)
ResolveIn(heap, resolver, id) == Get(heap[resolver.apis], id)

\* A caller invokes this.resolve(ref) on one of the resolvers.
Resolve ==
  /\ call.pc = "idle"
  /\ \E this \in 1 .. Len(resolvers), id \in Ids :
       resolved' = [this |-> this, id |-> id, value |-> ResolveIn(maps, resolvers[this], id)]
  /\ UNCHANGED <<maps, resolvers, call, elsewhere>>

Next ==
  \/ With
  \/ CheckDuplicate
  \/ VisitDep
  \/ Enqueue
  \/ Instantiate
  \/ Return
  \/ Complete
  \/ Resolve

Spec == Init /\ [][Next]_vars

\* The steps of a with call in progress. with is synchronous code: once
\* called, its next statement always gets executed.
WithStep == CheckDuplicate \/ VisitDep \/ Enqueue \/ Instantiate \/ Return

FairSpec == Spec /\ WF_vars(WithStep)

TypeOK ==
  /\ call.pc \in {"idle", "check", "visit", "instantiate", "return", "returned", "thrown"}
  /\ Len(resolvers) <= MaxResolvers
  /\ \A r \in 1 .. Len(resolvers) : resolvers[r].apis \in 1 .. Len(maps)

(* ---------------------------------------------------------------------- *)
(* RootContext                                                             *)
(* ---------------------------------------------------------------------- *)

\* The objects an abort can change.
World == [signals |-> signals, timers |-> timers, promises |-> promises]

WorldBecomes(w) == signals' = w.signals /\ timers' = w.timers /\ promises' = w.promises

\* new AbortController(): a signal that is not aborted and has no listener.
NewSignal == [aborted |-> FALSE, listeners |-> <<>>]

\* The listeners of the abort event: the bound abort of the controller of a
\* context made by withAbort, the arrow function of withTimeout (which
\* clears the timer and aborts the controller), the resolve of a promise.
AbortListener(target) == [kind |-> "abort", target |-> target, timer |-> 0, promise |-> 0]
TimeoutListener(target, timer) == [kind |-> "timeout", target |-> target, timer |-> timer, promise |-> 0]
ResolveListener(promise) == [kind |-> "resolve", target |-> 0, timer |-> 0, promise |-> promise]

\* signal.addEventListener('abort', listener): the listener is queued,
\* whether or not the signal is already aborted.
AddEventListener(sigs, n, listener) == [sigs EXCEPT ![n].listeners = Append(@, listener)]

\* clearTimeout(timeoutHandle): a timer that has fired stays as it is.
ClearTimeout(tms, t) == IF tms[t].state = "armed" THEN [tms EXCEPT ![t].state = "cleared"] ELSE tms

\* controller.abort(): nothing when the signal is already aborted; else the
\* signal becomes aborted and the listeners it has at that time are called
\* in the order they were added, each running to its end (which may abort
\* further controllers) before the next.
RECURSIVE AbortController(_, _)
RECURSIVE DispatchFrom(_, _, _)
AbortController(w, n) ==
  IF w.signals[n].aborted THEN w
  ELSE DispatchFrom([w EXCEPT !.signals[n].aborted = TRUE], n, 1)

DispatchFrom(w, n, j) ==
  IF j > Len(w.signals[n].listeners) THEN w
  ELSE LET listener == w.signals[n].listeners[j]
           after ==
             CASE listener.kind = "abort" -> AbortController(w, listener.target)
               [] listener.kind = "timeout" ->
                    AbortController([w EXCEPT !.timers = ClearTimeout(@, listener.timer)],
                                    listener.target)
               [] listener.kind = "resolve" ->
                    [w EXCEPT !.promises[listener.promise].resolved = TRUE]
       IN  DispatchFrom(after, n, j + 1)

\* No with call is running: the caller is free to make the next call.
CallerFree == call.pc = "idle"

\* RootContext.create({ apis }): a root context over a resolver the caller
\* holds; its signal belongs to a new controller that nobody keeps.
Create ==
  /\ CallerFree
  /\ Len(contexts) < MaxContexts
  /\ \E apis \in 1 .. Len(resolvers) :
       contexts' = Append(contexts,
         [abortSignal |-> Len(signals) + 1, apiResolver |-> apis,
          parent |-> 0, how |-> "create", reg |-> resolvers[apis].prov])
  /\ signals' = Append(signals, NewSignal)
  /\ UNCHANGED <<fetchVars, maps, resolvers, call, resolved, timers, promises>>

\* Mutation of withAbort: the abort of the controller of this context
\* listens on the new signal.
WithAbortUpwards(sigs, this) ==
  AddEventListener(Append(sigs, NewSignal), Len(sigs) + 1, AbortListener(this))

\* The body of withAbort on the signals: the new controller's signal, and
\* its abort listening on the signal of this context.
WithAbortSignals(sigs, this) ==
  Append(AddEventListener(sigs, this, AbortListener(Len(sigs) + 1)), NewSignal)

\* ctx.withAbort()
WithAbort ==
  /\ CallerFree
  /\ Len(contexts) < MaxContexts
  /\ \E c \in 1 .. Len(contexts) :
       /\ signals' = WithAbortSignals(signals, contexts[c].abortSignal)
       /\ contexts' = Append(contexts,
            [abortSignal |-> Len(signals) + 1, apiResolver |-> contexts[c].apiResolver,
             parent |-> c, how |-> "withAbort", reg |-> contexts[c].reg])
  /\ UNCHANGED <<fetchVars, maps, resolvers, call, resolved, timers, promises>>

\* The caller invokes the abort function that some withAbort returned.
Abort ==
  /\ CallerFree
  /\ \E c \in 1 .. Len(contexts) :
       /\ contexts[c].how = "withAbort"
       /\ WorldBecomes(AbortController(World, contexts[c].abortSignal))
  /\ UNCHANGED <<fetchVars, maps, resolvers, call, resolved, contexts>>

\* ctx.withTimeout(timeout): the timer is armed, to fire at some later time.
WithTimeout ==
  /\ CallerFree
  /\ Len(contexts) < MaxContexts
  /\ \E c \in 1 .. Len(contexts) :
       /\ timers' = Append(timers, [target |-> Len(signals) + 1, state |-> "armed"])
       /\ signals' = Append(AddEventListener(signals, contexts[c].abortSignal,
                                TimeoutListener(Len(signals) + 1, Len(timers) + 1)),
                            NewSignal)
       /\ contexts' = Append(contexts,
            [abortSignal |-> Len(signals) + 1, apiResolver |-> contexts[c].apiResolver,
             parent |-> c, how |-> "withTimeout", reg |-> contexts[c].reg])
  /\ UNCHANGED <<fetchVars, maps, resolvers, call, resolved, promises>>

\* The time of a timer has passed: () => { newController.abort() }
TimeoutFires ==
  /\ CallerFree
  /\ \E t \in 1 .. Len(timers) :
       /\ timers[t].state = "armed"
       /\ WorldBecomes(AbortController([World EXCEPT !.timers[t].state = "fired"],
                                       timers[t].target))
  /\ UNCHANGED <<fetchVars, maps, resolvers, call, resolved, contexts>>

\* ctx.abortPromise: a new promise at every read, whose resolve listens on the
\* signal of the context.
AbortPromise ==
  /\ CallerFree
  /\ Len(promises) < MaxPromises
  /\ \E c \in 1 .. Len(contexts) :
       /\ promises' = Append(promises,
            [ctx |-> c, resolved |-> FALSE, late |-> signals[contexts[c].abortSignal].aborted])
       /\ signals' = AddEventListener(signals, contexts[c].abortSignal,
                                      ResolveListener(Len(promises) + 1))
  /\ UNCHANGED <<fetchVars, maps, resolvers, call, resolved, contexts, timers>>

\* [factory].flat(): the argument of withApi is one factory or an array.
One(factory) == [many |-> FALSE, factories |-> <<factory>>]
Many(factories) == [many |-> TRUE, factories |-> factories]
Flat(argument) == argument.factories

\* The factories that the callers of withApi use.
ApiFactories == {1, 2, 6}

\* The arguments of withApi within a budget of factory occurrences.
ApiArguments(budget) ==
  {One(f) : f \in IF budget >= 1 THEN ApiFactories ELSE {}}
    \cup {Many(fs) : fs \in SeqsUpTo(ApiFactories, budget)}

\* Mutation of withApi: the new resolver is stored into this context too.
DeriveApiInPlace(ctxs, this, newResolver, factories) ==
  Append([ctxs EXCEPT ![this].apiResolver = newResolver],
         [abortSignal |-> ctxs[this].abortSignal, apiResolver |-> newResolver,
          parent |-> this, how |-> "withApi",
          reg |-> ctxs[this].reg \cup Range(factories)])

\* new RootContext(this.abortSignal, newResolver)
DeriveApi(ctxs, this, newResolver, factories) ==
  Append(ctxs,
         [abortSignal |-> ctxs[this].abortSignal, apiResolver |-> newResolver,
          parent |-> this, how |-> "withApi",
          reg |-> ctxs[this].reg \cup Range(factories)])

\* ctx.withApi(factory): this.apiResolver.with([factory].flat()) runs to its
\* end; when it returns, the derived context holds the new resolver and the
\* signal of this context; when it throws, so does withApi, and nothing is
\* left of the call.
WithApi ==
  /\ CallerFree
  /\ Len(contexts) < MaxContexts
  /\ Len(resolvers) < MaxResolvers
  /\ \E c \in 1 .. Len(contexts) :
       \E argument \in ApiArguments(MaxApiFactories - CostFrom(resolvers, 1)) :
          LET this == contexts[c].apiResolver
              s == Run(Start(this, resolvers[this].apis, Flat(argument), maps))
          IN  IF s.call.pc = "return"
              THEN /\ maps' = s.maps
                   /\ resolvers' = ReturnResolver(resolvers, s.call)
                   /\ contexts' = DeriveApi(contexts, c, Len(resolvers) + 1, s.call.factories)
              ELSE UNCHANGED <<maps, resolvers, contexts>>
  /\ UNCHANGED <<fetchVars, call, resolved, signals, timers, promises>>

\* resolveApi(ref): return this.apiResolver.resolve(ref)
ResolveApiIn(heap, rs, ctx, id) == ResolveIn(heap, rs[ctx.apiResolver], id)

CtxNext ==
  \/ Create
  \/ WithAbort
  \/ Abort
  \/ WithTimeout
  \/ TimeoutFires
  \/ AbortPromise
  \/ WithApi

CtxSpec == Init /\ [][CtxNext]_vars

(* ---------------------------------------------------------------------- *)
(* IdentityAwareFetchMiddleware                                            *)
(* ---------------------------------------------------------------------- *)

\* The token functions that callers pass to setSignedIn: what the promise
\* each returns settles to (a string, undefined, or a rejection).
TokenFunctions ==
  << [settles |-> "string", token |-> "tokenA"],
     [settles |-> "string", token |-> "tokenB"],
     [settles |-> "undefined", token |-> ""],
     [settles |-> "rejected", token |-> ""] >>

\* The values of the field tokenFunction: a function of the table, or 0.
TokenFunction == 0 .. Len(TokenFunctions)

\* The header names, the inputs and the inits that callers use. Headers are
\* sets of <<name, value>> pairs.
HeaderNames == {DEFAULT_HEADER_NAME, "authorization"}
Inputs == {"/entities"}
NoInit == [given |-> FALSE, headers |-> {}]
Inits == {NoInit, [given |-> TRUE, headers |-> {<<DEFAULT_HEADER_NAME, "stale">>}]}

\* new Request(input, init)
Request(input, init) == [url |-> input, headers |-> init.headers]
NoRequest == [url |-> "", headers |-> {}]

\* request.headers.set(name, value)
HeadersSet(request, name, value) ==
  [request EXCEPT !.headers = {h \in @ : h[1] # name} \cup {<<name, value>>}]

\* The arguments of a call of next: next(input, init) or next(request).
NextPlain(input, init) == [plain |-> TRUE, input |-> input, init |-> init, request |-> NoRequest]
NextRequest(request) == [plain |-> FALSE, input |-> "", init |-> NoInit, request |-> request]

\* Mutation of the fetch function: it uses the token function that the
\* field held when apply was called.
ReadTokenFunctionAtApply(fn, field) == fn.atApply

\* const tokenFunction = this.tokenFunction, at each call
ReadTokenFunction(fn, field) == field

\* typeof tokenFunction === 'function'
IsFunction(f) == f # 0

\* apply(next): a new fetch function. (The callers of the middleware and
\* the continuations of its fetch calls run one at a time.)
Apply ==
  /\ fetchFn' = [made |-> TRUE, atApply |-> tokenFunction]
  /\ UNCHANGED <<maps, resolvers, call, resolved, ctxVars, tokenFunction, headerName, fetches>>

\* setHeaderName(name)
SetHeaderName ==
  /\ \E name \in HeaderNames : headerName' = name
  /\ UNCHANGED <<maps, resolvers, call, resolved, ctxVars, tokenFunction, fetchFn, fetches>>

\* setSignedIn(tokenFunction); the argument may be undefined.
SetSignedIn ==
  /\ \E f \in TokenFunction : tokenFunction' = f
  /\ UNCHANGED <<maps, resolvers, call, resolved, ctxVars, headerName, fetchFn, fetches>>

\* setSignedOut()
SetSignedOut ==
  /\ tokenFunction' = 0
  /\ UNCHANGED <<maps, resolvers, call, resolved, ctxVars, headerName, fetchFn, fetches>>

\* A call of the fetch function, up to its first await: without a token
\* function it calls next(input, init) and is done; else it calls the token
\* function and awaits the promise.
FetchStart(fn, field, input, init) ==
  LET f == ReadTokenFunction(fn, field)
      started == [pc |-> "awaiting", input |-> input, init |-> init,
                  tokenFunction |-> f, startedWith |-> field, raced |-> FALSE,
                  next |-> <<>>]
  IN  IF ~IsFunction(f)
      THEN [started EXCEPT !.pc = "done", !.next = <<NextPlain(input, init)>>]
      ELSE started

Fetch ==
  /\ fetchFn.made
  /\ Len(fetches) < MaxFetches
  /\ \E input \in Inputs, init \in Inits :
       fetches' = Append(fetches, FetchStart(fetchFn, tokenFunction, input, init))
  /\ UNCHANGED <<maps, resolvers, call, resolved, ctxVars, tokenFunction, headerName, fetchFn>>

\* Mutation of the continuation: it goes by this.tokenFunction as it is
\* after the await.
FetchResumeRereads(fetch, name) ==
  IF ~IsFunction(tokenFunction)
  THEN [fetch EXCEPT !.pc = "done",
                     !.next = Append(@, NextPlain(fetch.input, fetch.init))]
  ELSE LET settled == TokenFunctions[tokenFunction]
       IN  CASE settled.settles = "rejected" -> [fetch EXCEPT !.pc = "rejected"]
             [] settled.settles = "undefined" ->
                  [fetch EXCEPT !.pc = "done",
                                !.next = Append(@, NextPlain(fetch.input, fetch.init))]
             [] settled.settles = "string" ->
                  [fetch EXCEPT !.pc = "done",
                                !.next = Append(@, NextRequest(
                                   HeadersSet(Request(fetch.input, fetch.init), name, settled.token)))]

\* The continuation of a call after "await tokenFunction()": the rejection
\* of the promise leaves the call; a token that is no string goes to
\* next(input, init); a string is set under this.headerName, as it is now,
\* on a new Request that goes to next.
FetchResume(fetch, name) ==
  LET settled == TokenFunctions[fetch.tokenFunction]
  IN  CASE settled.settles = "rejected" -> [fetch EXCEPT !.pc = "rejected"]
        [] settled.settles = "undefined" ->
             [fetch EXCEPT !.pc = "done",
                           !.next = Append(@, NextPlain(fetch.input, fetch.init))]
        [] settled.settles = "string" ->
             [fetch EXCEPT !.pc = "done",
                           !.next = Append(@, NextRequest(
                              HeadersSet(Request(fetch.input, fetch.init), name, settled.token)))]

TokenSettles ==
  /\ \E k \in 1 .. Len(fetches) :
       /\ fetches[k].pc = "awaiting"
       /\ fetches' = [fetches EXCEPT ![k] =
            [FetchResume(fetches[k], headerName)
               EXCEPT !.raced = (tokenFunction # fetches[k].startedWith)]]
  /\ UNCHANGED <<maps, resolvers, call, resolved, ctxVars, tokenFunction, headerName, fetchFn>>

FetchNext ==
  \/ Apply
  \/ SetHeaderName
  \/ SetSignedIn
  \/ SetSignedOut
  \/ Fetch
  \/ TokenSettles

FetchSpec == Init /\ [][FetchNext]_vars

(* ---------------------------------------------------------------------- *)
(* Vocabulary of the properties                                            *)
(* ---------------------------------------------------------------------- *)

\* The with call has ended, by a return or by a throw.
Ended == call.pc \in {"returned", "thrown"}
Succeeded == call.pc = "returned"
Failed(kind) == call.pc = "thrown" /\ call.error.kind = kind

\* The registry of the receiver of the call, and of the resolver it returned.
ThisApis == maps[resolvers[call.this].apis]
ResultApis == maps[resolvers[call.result].apis]

Api(f) == Pool[f].api
Deps(f) == Range(Pool[f].deps)
Produced(factories) == {Api(f) : f \in Range(factories)}

\* No two positions of the batch produce the same identifier.
DistinctIds(factories) ==
  \A j, h \in 1 .. Len(factories) : j # h => Api(factories[j]) # Api(factories[h])

\* Every dependency of the batch is produced by the batch or present in base.
Satisfiable(base, factories) ==
  \A f \in Range(factories) : Deps(f) \subseteq DOMAIN base \cup Produced(factories)

\* The dependency graph of a set of factories has no cycle: the set can be
\* emptied by removing, again and again, a factory none of whose
\* dependencies is produced by a factory still in the set.
RECURSIVE Acyclic(_)
Acyclic(S) ==
  \/ S = {}
  \/ \E f \in S : /\ Deps(f) \cap {Api(g) : g \in S} = {}
                  /\ Acyclic(S \ {f})

\* The reference computation: the value of an identifier is the one the base
\* registry holds, else the value its producer in S constructs from the
\* reference values of its dependencies.
RECURSIVE RefValue(_, _, _)
RefValue(base, S, id) ==
  IF id \in DOMAIN base THEN base[id]
  ELSE LET f == CHOOSE g \in S : Api(g) = id
       IN  Construct(f, [j \in 1 .. Len(Pool[f].deps) |-> RefValue(base, S, Pool[f].deps[j])])

NoneThrows(factories) == \A f \in Range(factories) : ~Pool[f].throws

(* ---------------------------------------------------------------------- *)
(* C1                                                                      *)
(* ---------------------------------------------------------------------- *)

WellFormedBatch(base, factories) ==
  /\ Acyclic(Range(factories))
  /\ DistinctIds(factories)
  /\ Satisfiable(base, factories)

ResolvesToReference ==
  /\ Succeeded
  /\ \A id \in Produced(call.factories) :
        /\ Has(ResultApis, id)
        /\ ResultApis[id] = RefValue(ThisApis, Range(call.factories), id)

\* C1 as stated: every with call whose batch is acyclic, has pairwise distinct
\* produced identifiers and has all its dependencies in the batch or the
\* receiver succeeds, in whatever order the batch is given, and resolves every
\* produced identifier to the reference value (construction functions being
\* the pure functions of the data model, which return a value).
C1_AsStated ==
  (/\ Ended
   /\ WellFormedBatch(ThisApis, call.factories)
   /\ NoneThrows(call.factories))
  => ResolvesToReference

\* C1 amended: the same, for batches none of whose produced identifiers is
\* already present in the receiver.
C1_OrderIndependentValues ==
  (/\ Ended
   /\ WellFormedBatch(ThisApis, call.factories)
   /\ Produced(call.factories) \cap DOMAIN ThisApis = {}
   /\ NoneThrows(call.factories))
  => ResolvesToReference

\* The batch c, b, a (dependents first) on the empty resolver has returned
\* and c resolves to 3.
C1_Witness ==
  /\ Succeeded
  /\ call.factories = <<3, 2, 1>>
  /\ ThisApis = EmptyApis
  /\ ResultApis["c"] = Num(3)

(* ---------------------------------------------------------------------- *)
(* C2                                                                      *)
(* ---------------------------------------------------------------------- *)

\* C2: whenever a with call is about to invoke the construction function of
\* the next factory of the queue, every identifier that factory declares as
\* a dependency is present in the growing registry copy (this covers every
\* call that reaches the instantiation loop, the successful ones included).
C2_DependenciesInstantiatedFirst ==
  call.pc = "instantiate" => Deps(call.queue[call.qi]) \subseteq DOMAIN maps[call.apis]

\* The batch c, b, a: c is about to be constructed, third, from a and b.
C2_Witness ==
  /\ call.pc = "instantiate"
  /\ call.factories = <<3, 2, 1>>
  /\ call.queue[call.qi] = 3
  /\ call.qi = 3
  /\ DOMAIN maps[call.apis] = {"a", "b"}

(* ---------------------------------------------------------------------- *)
(* C3                                                                      *)
(* ---------------------------------------------------------------------- *)

\* The batch holds a factory whose identifier the receiver already holds.
HasDuplicate == \E f \in Range(call.factories) : Has(ThisApis, Api(f))

\* The position of the first such factory in the batch.
FirstDuplicate ==
  CHOOSE j \in 1 .. Len(call.factories) :
    /\ Has(ThisApis, Api(call.factories[j]))
    /\ \A h \in 1 .. j - 1 : ~Has(ThisApis, Api(call.factories[h]))

\* C3 as stated: a with call whose batch holds a factory producing an
\* identifier already present in the receiver fails with the
\* duplicate-registration error naming such an identifier, wherever the
\* factory is and whatever the other factories are.
C3_AsStated ==
  (Ended /\ HasDuplicate)
  => /\ Failed("duplicate")
     /\ call.error.chain[1] \in DOMAIN ThisApis

\* C3 amended: such a call always fails, before any construction function is
\* invoked; the error is the duplicate-registration error of the first such
\* factory of the batch, unless placing a factory that stands earlier in the
\* batch raised a missing-dependency or circular-dependency error first.
C3_DuplicateRejected ==
  (Ended /\ HasDuplicate)
  => /\ call.pc = "thrown"
     /\ call.invoked = <<>>
     /\ call.i <= FirstDuplicate
     /\ call.i = FirstDuplicate
          => call.error = [kind |-> "duplicate", chain |-> <<Api(call.factories[FirstDuplicate])>>]
     /\ call.i < FirstDuplicate => call.error.kind \in {"missing", "circular"}

\* A receiver holding a, a batch whose second factory produces a again after
\* a valid first one: the duplicate error for a.
C3_Witness ==
  /\ Failed("duplicate")
  /\ call.error.chain = <<"a">>
  /\ Len(call.factories) >= 2
  /\ call.i = 2
  /\ ~Has(ThisApis, Api(call.factories[1]))

(* ---------------------------------------------------------------------- *)
(* C4                                                                      *)
(* ---------------------------------------------------------------------- *)

\* The three errors with raises before it instantiates anything.
OrderingErrors == {"duplicate", "missing", "circular"}

\* No produced identifier of the batch is present in the receiver.
NoDuplicate == Produced(call.factories) \cap DOMAIN ThisApis = {}

\* The dependencies of f that neither the receiver nor the batch provides.
MissingOf(f) == Deps(f) \ (DOMAIN ThisApis \cup Produced(call.factories))
HasMissing == \E f \in Range(call.factories) : MissingOf(f) # {}

\* The factory whose dependencies the k-th identifier of an error chain
\* stands for: the batch factory being placed for the first one, the first
\* producer in the batch for the others.
ChainFactory(chain, k) ==
  IF k = 1 THEN call.factories[call.i] ELSE Find(call.factories, chain[k])

\* chain is a path of the traversal: it starts at the identifier of the
\* batch factory being placed and each further identifier is a dependency
\* of the factory the one before it stands for.
TraversalPath(chain) ==
  /\ Len(chain) >= 2
  /\ chain[1] = Api(call.factories[call.i])
  /\ \A k \in 1 .. Len(chain) - 1 :
        /\ ChainFactory(chain, k) # 0
        /\ chain[k + 1] \in Deps(ChainFactory(chain, k))

\* The first missing dependency of f, in the order of its deps.
FirstMissing(f) ==
  Pool[f].deps[CHOOSE j \in 1 .. Len(Pool[f].deps) :
                 /\ Pool[f].deps[j] \in MissingOf(f)
                 /\ \A h \in 1 .. j - 1 : Pool[f].deps[h] \notin MissingOf(f)]

\* f is the only factory of the batch with a missing dependency and no
\* factory of the batch depends on it; the rest of the batch is valid.
OnlyFailing(f) ==
  /\ MissingOf(f) # {}
  /\ \A g \in Range(call.factories) \ {f} : MissingOf(g) = {} /\ Api(f) \notin Deps(g)
  /\ DistinctIds(call.factories)
  /\ NoDuplicate
  /\ Acyclic(Range(call.factories))

\* C4 as stated: a with call whose batch holds a factory with a dependency
\* that neither the receiver nor the batch provides fails with the
\* missing-dependency error, whose chain is a path from the batch factory
\* being placed to a missing identifier, two identifiers long (c -> missing)
\* when the failing factory stands among unrelated valid factories.
C4_AsStated ==
  (Ended /\ HasMissing)
  => /\ Failed("missing")
     /\ TraversalPath(call.error.chain)
     /\ \A f \in Range(call.factories) :
          OnlyFailing(f) => call.error.chain = <<Api(f), FirstMissing(f)>>

\* C4 amended: such a call always fails, before any construction function is
\* invoked; the error is the missing-dependency error whenever the produced
\* identifiers of the batch are pairwise distinct and absent from the
\* receiver and the batch has no dependency cycle; the chain of a
\* missing-dependency error is the traversal path from the identifier of the
\* batch factory being placed to the missing identifier; and it is the same
\* two identifiers (c -> missing) in every order of a batch in which the
\* failing factory is the only one with a missing dependency, no other
\* factory depends on it and the other factories are valid.
C4_MissingRejected ==
  (Ended /\ HasMissing)
  => /\ call.pc = "thrown"
     /\ call.invoked = <<>>
     /\ call.error.kind \in OrderingErrors
     /\ (DistinctIds(call.factories) /\ NoDuplicate /\ Acyclic(Range(call.factories)))
          => call.error.kind = "missing"
     /\ call.error.kind = "missing"
          => /\ TraversalPath(call.error.chain)
             /\ call.error.chain[Len(call.error.chain)]
                  \notin DOMAIN ThisApis \cup Produced(call.factories)
     /\ \A f \in Range(call.factories) :
          OnlyFailing(f) => call.error = [kind |-> "missing", chain |-> <<Api(f), FirstMissing(f)>>]

\* The receiver holds a; in the batch b (which depends on a), c (which
\* depends on missing), the second factory fails with c -> missing.
C4_Witness ==
  /\ Failed("missing")
  /\ DOMAIN ThisApis = {"a"}
  /\ call.factories = <<2, 5>>
  /\ call.error.chain = <<"c", "missing">>

(* ---------------------------------------------------------------------- *)
(* C5                                                                      *)
(* ---------------------------------------------------------------------- *)

\* f and g are two factories whose dependencies reference each other's
\* identifiers.
Mutual(f, g) == f # g /\ Api(g) \in Deps(f) /\ Api(f) \in Deps(g)

HasMutualPair == \E f, g \in Range(call.factories) : Mutual(f, g)

\* The same, each of the two being the first factory of the batch that
\* produces its identifier (the one factories.find returns).
HasMutualFirstPair ==
  \E f, g \in Range(call.factories) :
    /\ Mutual(f, g)
    /\ Find(call.factories, Api(f)) = f
    /\ Find(call.factories, Api(g)) = g

NoRepeat(chain) == \A j, h \in 1 .. Len(chain) : j # h => chain[j] # chain[h]

\* C5 as stated: a with call whose batch holds two factories that depend on
\* each other fails with the circular-dependency error, and the chain is the
\* bare cycle: a traversal path that ends on the identifier it starts with
\* and repeats no other identifier.
C5_AsStated ==
  (Ended /\ HasMutualPair)
  => /\ Failed("circular")
     /\ TraversalPath(call.error.chain)
     /\ call.error.chain[1] = call.error.chain[Len(call.error.chain)]
     /\ NoRepeat(SubSeq(call.error.chain, 1, Len(call.error.chain) - 1))

\* C5 amended: a with call whose batch holds two factories that depend on
\* each other, each the first producer of its identifier in the batch, always
\* fails, before any construction function is invoked; the error is the
\* circular-dependency error whenever the produced identifiers of the batch
\* are pairwise distinct and absent from the receiver and no dependency is
\* missing; the chain of a circular-dependency error is the traversal path
\* from the identifier of the batch factory being placed, without repetition,
\* followed by an identifier already on it (identifiers outside the cycle may
\* come first); and it is the bare cycle a -> b -> a when the batch is just
\* the two factories, which depend on nothing else.
C5_CycleRejected ==
  /\ (Ended /\ HasMutualFirstPair)
       => /\ call.pc = "thrown"
          /\ call.invoked = <<>>
          /\ call.error.kind \in OrderingErrors
          /\ (DistinctIds(call.factories) /\ NoDuplicate /\ ~HasMissing)
               => call.error.kind = "circular"
  /\ Failed("circular")
       => LET chain == call.error.chain
              path == SubSeq(chain, 1, Len(chain) - 1)
          IN  /\ TraversalPath(chain)
              /\ NoRepeat(path)
              /\ Includes(path, chain[Len(chain)])
  /\ (/\ Ended
      /\ Len(call.factories) = 2
      /\ Mutual(call.factories[1], call.factories[2])
      /\ Deps(call.factories[1]) = {Api(call.factories[2])}
      /\ Deps(call.factories[2]) = {Api(call.factories[1])}
      /\ NoDuplicate)
       => call.error = [kind |-> "circular",
                        chain |-> <<Api(call.factories[1]), Api(call.factories[2]),
                                    Api(call.factories[1])>>]

\* The batch a (which depends on b), b (which depends on a) on the empty
\* resolver fails with a -> b -> a.
C5_Witness ==
  /\ Failed("circular")
  /\ ThisApis = EmptyApis
  /\ call.factories = <<4, 2>>
  /\ call.error.chain = <<"a", "b", "a">>

\* A cycle reached from a factory outside it: c -> a -> b -> a.
C5_WitnessPrefixed ==
  /\ Failed("circular")
  /\ call.error.chain = <<"c", "a", "b", "a">>

(* ---------------------------------------------------------------------- *)
(* C6                                                                      *)
(* ---------------------------------------------------------------------- *)

\* C6: no step of a with call changes a resolver that exists: each keeps its
\* Map and the Map keeps its content (the identifiers present and their
\* values), whether the call returns or throws any of its errors; and a call
\* that has thrown has added no resolver and no resolver holds its Map.
C6_ReceiverUnchanged ==
  [][/\ \A r \in 1 .. Len(resolvers) :
          /\ r <= Len(resolvers')
          /\ resolvers'[r] = resolvers[r]
          /\ maps'[resolvers'[r].apis] = maps[resolvers[r].apis]
     /\ call'.pc = "thrown"
          => /\ Len(resolvers') = Len(resolvers)
             /\ \A r \in 1 .. Len(resolvers') : resolvers'[r].apis # call'.apis]_vars

\* A call on a receiver holding a has stored b in its own Map and then failed
\* in the construction function of d.
C6_Witness ==
  /\ Failed("factory")
  /\ DOMAIN ThisApis = {"a"}
  /\ DOMAIN maps[call.apis] = {"a", "b"}

(* ---------------------------------------------------------------------- *)
(* C7                                                                      *)
(* ---------------------------------------------------------------------- *)

\* The orders of a set of factories.
Orders(S) == {p \in SeqsUpTo(S, Cardinality(S)) : Len(p) = Cardinality(S) /\ Range(p) = S}

\* C7: when a resolver has been grown from the empty one by two or more with
\* calls and the factories registered along the way form an acyclic,
\* satisfiable set with pairwise distinct identifiers, a single with call
\* over the whole set, in any order, on the empty resolver returns a registry
\* with the same identifiers and the same values.
C7_IncrementalEqualsBatch ==
  (/\ Succeeded
   /\ resolvers[call.result].calls >= 2
   /\ \A f, g \in resolvers[call.result].prov : f # g => Api(f) # Api(g)
   /\ Acyclic(resolvers[call.result].prov)
   /\ \A f \in resolvers[call.result].prov : Deps(f) \subseteq {Api(g) : g \in resolvers[call.result].prov})
  => \A p \in Orders(resolvers[call.result].prov) :
       LET single == Run(Start(1, 1, p, <<EmptyApis>>))
       IN  /\ single.call.pc = "return"
           /\ Apis(single) = ResultApis

\* with([b]).with([a]), a depending on b: the second call has returned.
C7_Witness ==
  /\ Succeeded
  /\ resolvers[call.result].calls = 2
  /\ resolvers[call.result].prov = {4, 6}
  /\ call.factories = <<4>>
  /\ ResultApis["a"] = Num(12)

(* ---------------------------------------------------------------------- *)
(* C8                                                                      *)
(* ---------------------------------------------------------------------- *)

\* C8 as stated: a value is never stored under an identifier that already
\* holds one, in a registry or in the growing registry copy of a with call:
\* when a construction function is about to be invoked, the identifier it
\* produces is not yet present.
C8_AsStated ==
  call.pc = "instantiate" => ~Has(maps[call.apis], Api(call.queue[call.qi]))

(* ---------------------------------------------------------------------- *)
(* C9                                                                      *)
(* ---------------------------------------------------------------------- *)

\* C9 as stated: a with call that returns yields a registry whose identifiers
\* are those of the receiver and those produced by the batch, the former
\* with their values, with one new entry for each factory object of the
\* batch.
C9_AsStated ==
  Succeeded
  => /\ DOMAIN ResultApis = DOMAIN ThisApis \cup Produced(call.factories)
     /\ \A id \in DOMAIN ThisApis : ResultApis[id] = ThisApis[id]
     /\ Cardinality(DOMAIN ResultApis)
          = Cardinality(DOMAIN ThisApis) + Cardinality(Range(call.factories))

(* ---------------------------------------------------------------------- *)
(* C10                                                                     *)
(* ---------------------------------------------------------------------- *)

\* The call has thrown and left nothing behind: no resolver was built and no
\* resolver holds the Map of the call.
FailedEntirely ==
  /\ call.pc = "thrown"
  /\ call.result = 0
  /\ \A r \in 1 .. Len(resolvers) : resolvers[r].apis # call.apis

\* C10 as stated: a with call that has ended either failed entirely or
\* returned a registry with strictly more identifiers than the receiver's.
C10_AsStated ==
  Ended
  => \/ FailedEntirely
     \/ /\ Succeeded
        /\ DOMAIN ThisApis \subseteq DOMAIN ResultApis
        /\ DOMAIN ThisApis # DOMAIN ResultApis

\* C10 amended: a with call that has ended either failed entirely or returned
\* a registry that holds every identifier of the receiver's, and strictly
\* more exactly when the batch is not empty.
C10_FailsOrGrows ==
  Ended
  => \/ FailedEntirely
     \/ /\ Succeeded
        /\ DOMAIN ThisApis \subseteq DOMAIN ResultApis
        /\ (DOMAIN ThisApis # DOMAIN ResultApis) <=> (call.factories # <<>>)

\* A call with a batch of one factory on a receiver that holds a has
\* returned a registry with one identifier more.
C10_Witness ==
  /\ Succeeded
  /\ DOMAIN ThisApis = {"a"}
  /\ Len(call.factories) = 1
  /\ Cardinality(DOMAIN ResultApis) = 2

(* ---------------------------------------------------------------------- *)
(* C11                                                                     *)
(* ---------------------------------------------------------------------- *)

\* The factories producing id that were registered along the derivation
\* chain of the resolver that resolve was last called on.
RegisteredFor(id) == {f \in resolvers[resolved.this].prov : Api(f) = id}

\* C11 as stated: resolve returns undefined exactly when no factory producing
\* the identifier was registered along the derivation chain of the resolver,
\* whatever the construction functions returned.
C11_AsStated ==
  resolved.this # 0
  => (resolved.value = Undefined <=> RegisteredFor(resolved.id) = {})

\* C11 amended: resolve raises nothing; it returns undefined when no factory
\* producing the identifier was registered along the derivation chain of the
\* resolver, and otherwise only when the construction function of the
\* registered factory returned undefined.
C11_AbsentOrUndefined ==
  resolved.this # 0
  => /\ RegisteredFor(resolved.id) = {} => resolved.value = Undefined
     /\ (RegisteredFor(resolved.id) # {} /\ resolved.value = Undefined)
          => \E f \in RegisteredFor(resolved.id) : Pool[f].void

\* resolve of b on a resolver grown by two with calls, the first of which
\* registered b, has returned the value of b.
C11_Witness ==
  /\ resolved.this # 0
  /\ resolvers[resolved.this].calls = 2
  /\ resolved.id = "b"
  /\ resolved.value = Num(7)

\* resolve of an identifier nobody registered, on a resolver that holds
\* others, has returned undefined.
C11_WitnessAbsent ==
  /\ resolved.this # 0
  /\ resolvers[resolved.this].prov # {}
  /\ RegisteredFor(resolved.id) = {}
  /\ resolved.value = Undefined

(* ---------------------------------------------------------------------- *)
(* C15                                                                     *)
(* ---------------------------------------------------------------------- *)

\* The call is in, or past, its instantiation loop.
Instantiating == call.pc \in {"instantiate", "return", "returned"} \/ Failed("factory")

\* C15: validation precedes instantiation. A with call that has failed with
\* the duplicate-registration, missing-dependency or circular-dependency
\* error has invoked no construction function; and a call that has invoked
\* one has walked through its whole batch without any of these errors.
C15_ValidationPrecedesInstantiation ==
  /\ (\E kind \in OrderingErrors : Failed(kind)) => call.invoked = <<>>
  /\ call.invoked # <<>> => (Instantiating /\ call.i = Len(call.factories) + 1)

\* A with call whose second factory has a missing dependency has failed
\* after it had placed its first factory in the queue.
C15_Witness ==
  /\ Failed("missing")
  /\ call.i = 2
  /\ call.queue # <<>>
  /\ call.invoked = <<>>

(* ---------------------------------------------------------------------- *)
(* C16                                                                     *)
(* ---------------------------------------------------------------------- *)

\* C16: in a with call that reaches its instantiation loop the queue holds
\* every factory object of the batch exactly once, whether it was reached
\* as a dependency, as a factory of the batch, or both, and however often
\* the object stands in the batch; the loop invokes the construction
\* functions of the queue in order, one each, so that a call that succeeds
\* has invoked each exactly once; and no invoked factory produces an
\* identifier that the receiver already held.
C16_EachFactoryOnce ==
  (call.pc \in {"instantiate", "return", "returned"})
  => /\ NoRepeat(call.queue)
     /\ Range(call.queue) = Range(call.factories)
     /\ call.invoked = SubSeq(call.queue, 1, call.qi - 1)
     /\ Succeeded => call.invoked = call.queue
     /\ \A f \in Range(call.queue) : ~Has(ThisApis, Api(f))

\* A with call has succeeded on a batch in which the same factory object
\* stands twice and c depends on a and on b, which depends on a.
C16_Witness ==
  /\ Succeeded
  /\ 3 \in Range(call.factories)
  /\ Len(call.factories) > Len(call.queue)
  /\ Len(call.invoked) = 3

(* ---------------------------------------------------------------------- *)
(* C18                                                                     *)
(* ---------------------------------------------------------------------- *)

\* A with call is in progress.
Active == call.pc \in {"check", "visit", "instantiate", "return"}

\* The number of activations of enqueueDepthFirst on the call stack.
Depth == Len(call.stack)

\* C18: every with call terminates, whatever its batch (cycles, factories
\* depending on their own identifier, shared dependencies, repeated
\* identifiers): a call in progress leads to a call that has returned or
\* thrown; when no construction function throws, a call that has thrown
\* has thrown one of the three errors; and the depth of the recursion never
\* exceeds the number of distinct identifiers the batch produces.
C18_Terminates ==
  /\ Active ~> Ended
  /\ [](Depth <= Cardinality(Produced(call.factories)))
  /\ []((call.pc = "thrown" /\ NoneThrows(call.factories))
          => call.error.kind \in OrderingErrors)

\* A with call has thrown the circular-dependency error for a factory that
\* depends on the identifier it produces itself, placed after two others.
C18_Witness ==
  /\ Failed("circular")
  /\ call.error.chain = <<"d", "d">>
  /\ call.i = 3

\* A with call has thrown the circular-dependency error at the third level
\* of the recursion.
C18_WitnessDeep ==
  /\ Failed("circular")
  /\ Len(call.error.chain) = 4

(* ---------------------------------------------------------------------- *)
(* C19                                                                     *)
(* ---------------------------------------------------------------------- *)

\* The orders in which the factory objects of a batch can be handed over.
Reorderings(factories) ==
  {[j \in 1 .. Len(factories) |-> factories[pi[j]]] : pi \in Permutations(1 .. Len(factories))}

\* Whether this.with(factories) returns, on the receiver of the current call.
WouldSucceed(factories) ==
  Run(Start(call.this, resolvers[call.this].apis, factories, maps)).call.pc = "return"

\* C19 as stated: whether a with call succeeds does not depend on the order
\* of its batch: when the call has returned, the call on every reordering
\* of the batch returns, and when it has thrown, every one throws.
C19_AsStated ==
  Ended => \A p \in Reorderings(call.factories) : WouldSucceed(p) <=> Succeeded

(* ---------------------------------------------------------------------- *)
(* Vocabulary of the properties of contexts                                *)
(* ---------------------------------------------------------------------- *)

\* ctx.abortSignal.aborted
Aborted(c) == signals[contexts[c].abortSignal].aborted

Parent(c) == contexts[c].parent

\* Context a is c or one of the contexts c was derived from.
RECURSIVE AncestorOrSelf(_, _)
AncestorOrSelf(a, c) == a = c \/ (Parent(c) # 0 /\ AncestorOrSelf(a, Parent(c)))

\* The contexts that have a controller of their own which somebody can abort.
OwnController(c) == contexts[c].how \in {"withAbort", "withTimeout"}

(* ---------------------------------------------------------------------- *)
(* C12                                                                     *)
(* ---------------------------------------------------------------------- *)

\* C12 as stated: abort reaches every derived context: a context derived by
\* withAbort or withTimeout from a context whose signal is aborted has its
\* own signal aborted, whether it was derived before or after the abort
\* (and so, step by step, at every depth).
C12_AsStated ==
  \A c \in 1 .. Len(contexts) :
    (OwnController(c) /\ Aborted(Parent(c))) => Aborted(c)

(* ---------------------------------------------------------------------- *)
(* C13                                                                     *)
(* ---------------------------------------------------------------------- *)

\* C13 as stated: a promise obtained from abortPromise is resolved once the
\* signal of its context is aborted, whether the promise was obtained
\* before or after the abort, and it is not resolved while the signal of
\* its context is not aborted.
C13_AsStated ==
  \A p \in 1 .. Len(promises) : promises[p].resolved <=> Aborted(promises[p].ctx)

(* ---------------------------------------------------------------------- *)
(* C17                                                                     *)
(* ---------------------------------------------------------------------- *)

\* What ctx.resolveApi returns for an identifier.
ResolveApi(c, id) == ResolveApiIn(maps, resolvers, contexts[c], id)

\* C17: in every tree of contexts, resolveApi returns a value only for an
\* identifier that a factory registered along the derivation of the context
\* (by withApi on the context's ancestors, or in the resolver its root was
\* created with) produces; and no step, a withApi on whatever context
\* included, changes what an existing context resolves for any identifier.
C17_NoSharedResolverState ==
  /\ [](\A c \in 1 .. Len(contexts) : \A id \in Ids :
          ResolveApi(c, id) # Undefined => \E f \in contexts[c].reg : Api(f) = id)
  /\ [][\A c \in 1 .. Len(contexts) : \A id \in Ids :
          ResolveApi(c, id)' = ResolveApi(c, id)]_vars

\* Two contexts derived by withApi from the same context resolve different
\* identifiers, and their parent resolves none of them.
C17_Witness ==
  \E c, d \in 1 .. Len(contexts) :
    /\ c # d
    /\ contexts[c].how = "withApi" /\ contexts[d].how = "withApi"
    /\ Parent(c) = Parent(d)
    /\ ResolveApi(c, "a") = Num(1) /\ ResolveApi(d, "a") = Undefined
    /\ ResolveApi(d, "b") = Num(7) /\ ResolveApi(c, "b") = Undefined
    /\ ResolveApi(Parent(c), "a") = Undefined /\ ResolveApi(Parent(c), "b") = Undefined

(* ---------------------------------------------------------------------- *)
(* C20                                                                     *)
(* ---------------------------------------------------------------------- *)

\* The contexts whose signal becomes aborted in a step.
NewlyAborted == {c \in 1 .. Len(contexts) : ~Aborted(c) /\ Aborted(c)'}

\* C20: abort goes neither upwards nor sideways: the contexts that become
\* aborted in a step are one context that has a controller of its own (made
\* by withAbort or withTimeout) and contexts derived from it, so that its
\* parent, its other ancestors and its siblings stay as they are; and a
\* context derived by withApi is aborted exactly when the context it was
\* derived from is.
C20_NoUpwardsOrSideways ==
  /\ [][NewlyAborted # {}
          => \E o \in NewlyAborted :
               /\ OwnController(o)
               /\ \A c \in NewlyAborted : AncestorOrSelf(o, c)]_vars
  /\ [](\A c \in 1 .. Len(contexts) :
          contexts[c].how = "withApi" => (Aborted(c) <=> Aborted(Parent(c))))

\* A context derived by withAbort has been aborted, while its parent and a
\* sibling that has a controller of its own are not.
C20_Witness ==
  \E c, e \in 1 .. Len(contexts) :
    /\ contexts[c].how = "withAbort" /\ Aborted(c)
    /\ e # c /\ OwnController(e) /\ Parent(e) = Parent(c) /\ ~Aborted(e)
    /\ ~Aborted(Parent(c))

\* A context derived by withAbort and the context derived from it by
\* withApi are aborted, while the parent of the first is not.
C20_WitnessApi ==
  \E c, d \in 1 .. Len(contexts) :
    /\ contexts[c].how = "withAbort" /\ Aborted(c)
    /\ contexts[d].how = "withApi" /\ Parent(d) = c /\ Aborted(d)
    /\ ~Aborted(Parent(c))

(* ---------------------------------------------------------------------- *)
(* C14                                                                     *)
(* ---------------------------------------------------------------------- *)

\* What the token function that the field held when the call started
\* settles to: "none" when the field held no function.
StartedSettles(fetch) ==
  IF fetch.startedWith = 0 THEN "none" ELSE TokenFunctions[fetch.startedWith].settles

\* C14: the fetch function goes by the sign-in state at the start of each
\* call, not by the state when apply was called. A call started while
\* signed out has passed its input and init, as they were given, to next
\* before it returns to its caller; a call started while signed in awaits
\* the token, and once done it has passed input and init as given when the
\* token function yielded no string, and else a request for the input that
\* carries the yielded token under a header name of the middleware (a
\* token function whose promise rejects yields nothing, and the call ends
\* with the rejection).
C14_ReadsSignInStateAtCall ==
  \A k \in 1 .. Len(fetches) :
    LET fetch == fetches[k]
    IN  /\ StartedSettles(fetch) = "none"
             => (fetch.pc = "done" /\ fetch.next = <<NextPlain(fetch.input, fetch.init)>>)
        /\ (fetch.pc = "done" /\ StartedSettles(fetch) = "undefined")
             => fetch.next = <<NextPlain(fetch.input, fetch.init)>>
        /\ (fetch.pc = "done" /\ StartedSettles(fetch) = "string")
             => /\ Len(fetch.next) = 1
                /\ ~fetch.next[1].plain
                /\ fetch.next[1].request.url = fetch.input
                /\ \E name \in HeaderNames :
                     {h \in fetch.next[1].request.headers : h[1] = name}
                       = {<<name, TokenFunctions[fetch.startedWith].token>>}

\* The fetch function was made by apply while signed out; a call of it
\* started after setSignedIn has passed a request with the token to next.
C14_Witness ==
  /\ fetchFn.made /\ fetchFn.atApply = 0
  /\ \E k \in 1 .. Len(fetches) :
       /\ fetches[k].pc = "done"
       /\ fetches[k].startedWith = 1
       /\ fetches[k].init.given
       /\ fetches[k].next = <<NextRequest([url |-> "/entities",
                                           headers |-> {<<DEFAULT_HEADER_NAME, "tokenA">>}])>>

(* ---------------------------------------------------------------------- *)
(* C21                                                                     *)
(* ---------------------------------------------------------------------- *)

\* The call has left the fetch function, by a return or by a rejection.
FetchEnded(fetch) == fetch.pc \in {"done", "rejected"}

\* The call of next that a call started with this value of the field makes.
NextOf(fetch, name) ==
  IF StartedSettles(fetch) = "string"
  THEN NextRequest(HeadersSet(Request(fetch.input, fetch.init), name,
                              TokenFunctions[fetch.startedWith].token))
  ELSE NextPlain(fetch.input, fetch.init)

\* C21 as stated: under every interleaving, every fetch call that has ended
\* has called next exactly once, and what it passed to next goes by the
\* token function that the field held when the call started, whatever
\* setSignedIn and setSignedOut did while it awaited its token.
C21_AsStated ==
  \A k \in 1 .. Len(fetches) :
    FetchEnded(fetches[k])
      => /\ Len(fetches[k].next) = 1
         /\ \E name \in HeaderNames : fetches[k].next[1] = NextOf(fetches[k], name)

\* C21 amended: under every interleaving, a fetch call keeps the token
\* function that the field held when it started; it never calls next more
\* than once; when it is done it has called next exactly once, with or
\* without the header and with the token as that token function decides,
\* whatever setSignedIn and setSignedOut did while it awaited its token;
\* and it ends without a call of next only when the promise of that token
\* function rejected.
C21_UsesTokenFunctionAtStart ==
  \A k \in 1 .. Len(fetches) :
    LET fetch == fetches[k]
    IN  /\ fetch.tokenFunction = fetch.startedWith
        /\ Len(fetch.next) <= 1
        /\ fetch.pc = "awaiting" => (fetch.next = <<>> /\ StartedSettles(fetch) # "none")
        /\ fetch.pc = "done"
             => /\ Len(fetch.next) = 1
                /\ \E name \in HeaderNames : fetch.next[1] = NextOf(fetch, name)
        /\ fetch.pc = "rejected"
             => (fetch.next = <<>> /\ StartedSettles(fetch) = "rejected")

\* A call started while signed in has passed the token of its token
\* function to next although the middleware was signed out while the call
\* awaited the token; a call started after the sign-out has passed none.
C21_Witness ==
  \E k, h \in 1 .. Len(fetches) :
    /\ fetches[k].pc = "done" /\ fetches[k].raced
    /\ fetches[k].startedWith = 2
    /\ tokenFunction = 0
    /\ fetches[k].next = <<NextRequest([url |-> "/entities",
                                        headers |-> {<<DEFAULT_HEADER_NAME, "tokenB">>}])>>
    /\ h > k /\ fetches[h].startedWith = 0 /\ fetches[h].next[1].plain

====
